---- MODULE Spec2Model ----
(***************************************************************************)
(* ContactPoint data loading: the dataset wrapper                          *)
(* (src/src/data/components/contact_point_dataset.py) and the split/loader *)
(* module (src/src/data/contactpoint_datamodule.py).                       *)
(*                                                                         *)
(* Conventions.                                                            *)
(*  - An Optional value is a tuple: None is << >>, a present value v is    *)
(*    << v >>.                                                             *)
(*  - A ratio (a Python float of the configuration) is an exact fraction   *)
(*    [num, den]; products with the dataset length are exact.              *)
(*  - A Subset is the sequence of dataset indices (0-based) it holds.      *)
(*  - numpy arrays are sequences of rows, a row a sequence of cells.       *)
(*  - torch and numpy are libraries; their operations are modelled at the  *)
(*    call site from their documented behaviour (slicing, random_split,    *)
(*    DataLoader with its samplers).                                       *)
(***************************************************************************)
EXTENDS Integers, Sequences, FiniteSets, TLC

VARIABLES
    file,                   \* the array stored on disk (rows of cells)
    input,                  \* ContactPoint_Dataset.input
    output,                 \* ContactPoint_Dataset.output
    item,                   \* what the last dataset[idx] / len(dataset) returned
    hparams,                \* the module's saved constructor arguments
    data_train,             \* Optional Subset
    data_val,
    data_test,
    batch_size_per_device,
    trainer,                \* Optional [world_size]
    lengths,                \* Optional: the lengths the module's last split computed
    split_count,            \* how often the module's random_split ran (saturating)
    earlier,                \* Optional: the subsets an earlier module instance held
    default_rng,            \* state of torch's default generator
    loader,                 \* Optional: the DataLoader returned last
    batches,                \* the batches the last full iteration yielded
    err                     \* the exception the last module or loader call raised

vars == << file, input, output, item, hparams, data_train, data_val, data_test,
           batch_size_per_device, trainer, lengths, split_count, earlier,
           default_rng, loader, batches, err >>

dsVars == << file, input, output >>
dmVars == << hparams, data_train, data_val, data_test, batch_size_per_device,
             trainer, lengths, split_count, earlier >>

-----------------------------------------------------------------------------
(* Bounds of the model. *)
MaxN == 3
MaxRows == 3
MaxCols == 6
MaxBatch == 2
MaxWorld == 2
MaxSplitCount == 2

(* Program constants. *)
Seed == 42
OutDim == 3

None == << >>
Some(v) == << v >>
NoError == "none"

Stages == {"fit", "validate", "test", "predict", "None"}

Min(a, b) == IF a < b THEN a ELSE b
Max(a, b) == IF a > b THEN a ELSE b

-----------------------------------------------------------------------------
(* Python and numpy primitives. *)

\* s[lo:hi] on a sequence: negative bounds count from the end, all bounds clamp.
SliceBound(i, n) == IF i < 0 THEN Max(i + n, 0) ELSE Min(i, n)

PySlice(s, lo, hi) ==
    LET a == SliceBound(lo, Len(s))
        b == SliceBound(hi, Len(s))
    IN  IF a >= b THEN << >> ELSE [k \in 1..(b - a) |-> s[a + k]]

\* int(x) for the exact fraction x = p / q, q > 0: truncation toward zero.
PyInt(p, q) == IF p >= 0 THEN p \div q ELSE -((-p) \div q)

\* numpy astype('float32') of an integer-valued cell: 24 bits of mantissa, ties to even.
AsFloat32(v) ==
    LET a == IF v < 0 THEN -v ELSE v
        r == IF a <= 16777216 THEN a
             ELSE LET lo == (a \div 2) * 2
                  IN  IF a = lo THEN a
                      ELSE IF (lo \div 2) % 2 = 0 THEN lo ELSE lo + 2
    IN  IF v < 0 THEN -r ELSE r

Sum3(t) == t[1] + t[2] + t[3]

-----------------------------------------------------------------------------
(* torch generators: a generator is its state; every draw advances it. *)

RngSpace == 0..3
ManualSeed(s) == s % 4
NextRng(g) == (5 * g + 3) % 4

Swap(p, i, j) == [p EXCEPT ![i] = p[j], ![j] = p[i]]

\* Fisher-Yates over positions i, i-1, ..., 2, one draw per position.
RECURSIVE Shuffle(_, _, _)
Shuffle(p, i, g) ==
    IF i < 2 THEN p
    ELSE LET g2 == NextRng(g)
             j == ((g2 \div 2) % i) + 1
         IN  Shuffle(Swap(p, i, j), i - 1, g2)

\* torch.randperm(n, generator=g).tolist(): a permutation of 0 .. n-1.
RandPerm(n, g) == Shuffle([k \in 1..n |-> k - 1], n, g)

-----------------------------------------------------------------------------
(* ContactPoint_Dataset *)

\* __init__: np.load(...).astype('float32'), then the two column slices.
\* len(data[:,]) is the number of rows of data.
LoadData(f) == [r \in 1..Len(f) |-> [c \in 1..Len(f[r]) |-> AsFloat32(f[r][c])]]
InputOf(data) == [r \in 1..Len(data) |-> PySlice(data[r], 0, -OutDim)]
OutputOf(data) == [r \in 1..Len(data) |-> PySlice(data[r], -OutDim, Len(data))]

\* __len__
DatasetLen == Len(input)

\* numpy's a[idx] for an integer idx on the first axis: the row, counted from the
\* end when idx is negative; out of range otherwise.
RowIndexNoWrap(idx, n) == idx
RowIndex(idx, n) == IF idx < 0 THEN idx + n ELSE idx
InRange(idx, n) == RowIndex(idx, n) >= 0 /\ RowIndex(idx, n) < n

\* __getitem__
GetItem(idx) ==
    /\ item' = IF InRange(idx, Len(input)) /\ InRange(idx, Len(output))
                THEN [op |-> "getitem", idx |-> idx, err |-> NoError,
                      value |-> << input[RowIndex(idx, Len(input)) + 1],
                                   output[RowIndex(idx, Len(output)) + 1] >>]
                ELSE [op |-> "getitem", idx |-> idx, err |-> "IndexError",
                      value |-> << >>]
    /\ UNCHANGED << dsVars, dmVars, default_rng, loader, batches, err >>

\* len(dataset)
LenCall ==
    /\ item' = [op |-> "len", idx |-> 0, err |-> NoError, value |-> << DatasetLen >>]
    /\ UNCHANGED << dsVars, dmVars, default_rng, loader, batches, err >>

-----------------------------------------------------------------------------
(* torch.utils.data.random_split(dataset, lengths, generator), n = len(dataset). *)

\* Lengths that sum to 1 are read as fractions of the dataset: each must lie in
\* [0, 1], each split gets floor(n * frac), and the remainder is dealt out one
\* by one from the first split on.
IsFractions(lens) == Sum3(lens) = 1

FractionLengths(n, lens) ==
    LET fl == [i \in 1..3 |-> n * lens[i]]
        rem == n - Sum3(fl)
    IN  [i \in 1..3 |-> fl[i] + (IF rem <= 0 THEN 0
                                  ELSE (rem \div 3) + (IF i <= rem % 3 THEN 1 ELSE 0))]

\* itertools.accumulate(lengths)
Accumulate(lens) == << lens[1], lens[1] + lens[2], lens[1] + lens[2] + lens[3] >>

RandomSplit(n, lens, g) ==
    IF IsFractions(lens) /\ \E i \in 1..3 : lens[i] < 0 \/ lens[i] > 1
    THEN [err |-> "ValueError: fraction not between 0 and 1", subsets |-> << >>]
    ELSE LET ls == IF IsFractions(lens) THEN FractionLengths(n, lens) ELSE lens
             indices == RandPerm(Sum3(ls), g)
             offs == Accumulate(ls)
         IN  IF Sum3(ls) # n
             THEN [err |-> "ValueError: sum of lengths", subsets |-> << >>]
             ELSE [err |-> NoError,
                   subsets |-> [i \in 1..3 |-> PySlice(indices, offs[i] - ls[i], offs[i])]]

-----------------------------------------------------------------------------
(* ContactPointDataModule *)

\* `not x` for an Optional Subset: None is false, and so is a Subset of length 0
\* (Subset defines __len__).
Falsy(x) == x = None \/ Len(x[1]) = 0

\* Mutants of SplitLengths: rounding up instead of truncating; the test length
\* taken from a third ratio instead of the remainder.
SplitLengthsCeil(n, ratio) ==
    LET train_length == PyInt(ratio[1].num * n, ratio[1].den)
                        + (IF (ratio[1].num * n) % ratio[1].den = 0 THEN 0 ELSE 1)
        val_length == PyInt(ratio[2].num * n, ratio[2].den)
    IN  << train_length, val_length, n - train_length - val_length >>

SplitLengthsThirdRatio(n, ratio) ==
    LET train_length == PyInt(ratio[1].num * n, ratio[1].den)
        val_length == PyInt(ratio[2].num * n, ratio[2].den)
        den == ratio[1].den * ratio[2].den
        rest == den - ratio[1].num * ratio[2].den - ratio[2].num * ratio[1].den
    IN  << train_length, val_length, PyInt(rest * n, den) >>

\* train_length, val_length, test_length
SplitLengths(n, ratio) ==
    LET train_length == PyInt(ratio[1].num * n, ratio[1].den)
        val_length == PyInt(ratio[2].num * n, ratio[2].den)
    IN  << train_length, val_length, n - train_length - val_length >>

\* Mutant of SplitGenerator: no generator passed, so the default one is used.
SplitGeneratorDefault == default_rng

\* generator=torch.Generator().manual_seed(42)
SplitGenerator == ManualSeed(Seed)

\* Mutant of SplitOf: the validation and test subsets are taken in the wrong order.
SplitOfSwapped(n, ratio) ==
    LET rs == RandomSplit(n, SplitLengths(n, ratio), SplitGenerator)
    IN  IF rs.err # NoError THEN rs
        ELSE [rs EXCEPT !.subsets = << rs.subsets[1], rs.subsets[3], rs.subsets[2] >>]

\* random_split(dataset, (train_length, val_length, test_length), generator)
SplitOf(n, ratio) == RandomSplit(n, SplitLengths(n, ratio), SplitGenerator)

\* Mutant of NotDivisible: the check is missing.
NotDivisibleUnchecked == FALSE

\* the check of the batch size against the trainer's world size
NotDivisible ==
    /\ trainer # None
    /\ hparams.batch_size % trainer[1].world_size # 0

\* Mutant of PerDevice: the division is missing.
PerDeviceUndivided == hparams.batch_size

PerDevice ==
    IF trainer # None
    THEN hparams.batch_size \div trainer[1].world_size
    ELSE batch_size_per_device

NeedsSplit == Falsy(data_train) /\ Falsy(data_val) /\ Falsy(data_test)

Setup(stage) ==
    IF NotDivisible
    THEN /\ err' = "RuntimeError: batch size not divisible by the number of devices"
         /\ UNCHANGED << dsVars, item, dmVars, default_rng, loader, batches >>
    ELSE /\ batch_size_per_device' = PerDevice
         /\ IF NeedsSplit
            THEN LET lens == SplitLengths(DatasetLen, hparams.train_val_test_split_ratio)
                     rs == SplitOf(DatasetLen, hparams.train_val_test_split_ratio)
                 IN  /\ lengths' = Some(lens)
                     /\ err' = rs.err
                     /\ IF rs.err = NoError
                        THEN /\ data_train' = Some(rs.subsets[1])
                             /\ data_val' = Some(rs.subsets[2])
                             /\ data_test' = Some(rs.subsets[3])
                             /\ split_count' = Min(split_count + 1, MaxSplitCount)
                        ELSE UNCHANGED << data_train, data_val, data_test, split_count >>
            ELSE /\ err' = NoError
                 /\ UNCHANGED << data_train, data_val, data_test, lengths, split_count >>
         /\ UNCHANGED << dsVars, item, hparams, trainer, earlier, default_rng, loader, batches >>

\* The framework attaches a trainer to the module (self.trainer).
AttachTrainer(w) ==
    /\ trainer' = Some([world_size |-> w])
    /\ UNCHANGED << dsVars, item, hparams, data_train, data_val, data_test,
                    batch_size_per_device, lengths, split_count, earlier, default_rng,
                    loader, batches, err >>

\* prepare_data, teardown, state_dict and load_state_dict do nothing.
Hook ==
    /\ err' = NoError
    /\ UNCHANGED << dsVars, item, dmVars, default_rng, loader, batches >>

PrepareData == Hook
Teardown(stage) == Hook
StateDict == Hook
LoadStateDict == Hook

-----------------------------------------------------------------------------
(* DataLoader(dataset, batch_size, shuffle, drop_last=True) *)

MkLoader(kind, ds, b, shuffle, drop_last) ==
    [kind |-> kind, dataset |-> ds, batch_size |-> b,
     num_workers |-> hparams.num_workers, pin_memory |-> hparams.pin_memory,
     shuffle |-> shuffle, drop_last |-> drop_last]

\* shuffle=True builds a RandomSampler, which reads len(dataset) and refuses an
\* empty dataset; shuffle=False builds a SequentialSampler, which reads nothing yet.
TrainDataloaderWith(drop_last) ==
    /\ IF data_train = None
       THEN /\ err' = "TypeError: object of type NoneType has no len()"
            /\ UNCHANGED << loader, batches >>
       ELSE IF Len(data_train[1]) = 0
       THEN /\ err' = "ValueError: num_samples should be a positive integer value"
            /\ UNCHANGED << loader, batches >>
       ELSE /\ loader' = Some(MkLoader("train", data_train,
                                       batch_size_per_device, TRUE, drop_last))
            /\ batches' = None
            /\ err' = NoError
    /\ UNCHANGED << dsVars, item, dmVars, default_rng >>

\* Mutant of TrainDataloader: drop_last is not set.
TrainDataloaderKeepLast == TrainDataloaderWith(FALSE)

\* train_dataloader
TrainDataloader == TrainDataloaderWith(TRUE)

ValDataloader ==
    /\ loader' = Some(MkLoader("val", data_val,
                               batch_size_per_device, FALSE, TRUE))
    /\ batches' = None
    /\ err' = NoError
    /\ UNCHANGED << dsVars, item, dmVars, default_rng >>

TestDataloader ==
    /\ loader' = Some(MkLoader("test", data_test,
                               batch_size_per_device, FALSE, TRUE))
    /\ batches' = None
    /\ err' = NoError
    /\ UNCHANGED << dsVars, item, dmVars, default_rng >>

\* BatchSampler: consecutive groups of b indices; a shorter last group is kept
\* only without drop_last.
Chunk(order, b, drop_last) ==
    LET full == Len(order) \div b
        count == IF drop_last \/ Len(order) % b = 0 THEN full ELSE full + 1
    IN  [k \in 1..count |-> PySlice(order, (k - 1) * b, k * b)]

\* The order in which the sampler visits the dataset: a permutation drawn from a
\* generator seeded from the default generator, or the dataset's own order.
SampleOrder(ds, shuffle, g) ==
    IF shuffle
    THEN LET perm == RandPerm(Len(ds), g) IN [k \in 1..Len(ds) |-> ds[perm[k] + 1]]
    ELSE ds

\* One full iteration (an epoch) over the loader returned last. Creating the
\* iterator draws its base seed from the default generator; a RandomSampler
\* draws one more seed for its permutation.
Iterate ==
    /\ loader # None
    /\ LET l == loader[1]
           g1 == NextRng(default_rng)
       IN  IF l.dataset = None
           THEN /\ err' = "TypeError: object of type NoneType has no len()"
                /\ batches' = None
                /\ default_rng' = g1
           ELSE /\ err' = NoError
                /\ batches' = Some(Chunk(SampleOrder(l.dataset[1], l.shuffle, g1),
                                         l.batch_size, l.drop_last))
                /\ default_rng' = IF l.shuffle THEN NextRng(g1) ELSE g1
    /\ UNCHANGED << dsVars, item, dmVars, loader >>

-----------------------------------------------------------------------------
(* Initial states. *)

Ratio(p, q) == [num |-> p, den |-> q]

\* The configured (ratio_train, ratio_val) pairs: the default (0.5, 0.2), pairs
\* that sum to at most 1, to exactly 1 and to more than 1, and a ratio above 1.
RatioPairs ==
    { << Ratio(1, 2), Ratio(1, 5) >>, << Ratio(1, 3), Ratio(1, 3) >>,
      << Ratio(1, 3), Ratio(2, 3) >>, << Ratio(0, 1), Ratio(0, 1) >>,
      << Ratio(1, 1), Ratio(0, 1) >>, << Ratio(0, 1), Ratio(1, 1) >>,
      << Ratio(1, 2), Ratio(2, 3) >>, << Ratio(2, 3), Ratio(2, 3) >>,
      << Ratio(2, 3), Ratio(1, 1) >>, << Ratio(3, 2), Ratio(1, 1) >> }

\* The array on disk: n rows of d cells, each cell naming its own position.
MkFile(n, d, base) == [r \in 1..n |-> [c \in 1..d |-> base + (r - 1) * d + c]]

\* Cell values start either at 0 or just below 2^24, where float32 stops
\* holding every integer.
Bases == {0, 16777210}
MinCols == OutDim + 1

DatasetConstructed ==
    /\ input = InputOf(LoadData(file))
    /\ output = OutputOf(LoadData(file))
    /\ item = [op |-> "none", idx |-> 0, err |-> NoError, value |-> << >>]

\* The worker counts a module is built with: none, and the default.
WorkerCounts == {0, 4}

HParams(rp, b, w) ==
    [train_val_test_split_ratio |-> rp, batch_size |-> b, num_workers |-> w,
     pin_memory |-> FALSE]

\* ContactPointDataModule.__init__, and no call made yet.
ModuleConstructed ==
    /\ data_train = None
    /\ data_val = None
    /\ data_test = None
    /\ batch_size_per_device = hparams.batch_size
    /\ trainer = None
    /\ lengths = None
    /\ split_count = 0
    /\ earlier = None
    /\ loader = None
    /\ batches = None
    /\ err = NoError

\* A module over a dataset of 0 .. MaxN rows; the default generator is in any state.
Init ==
    /\ \E n \in 0..MaxN : file = MkFile(n, MinCols, 0)
    /\ \E rp \in RatioPairs, b \in 1..MaxBatch : hparams = HParams(rp, b, 4)
    /\ default_rng \in RngSpace
    /\ DatasetConstructed
    /\ ModuleConstructed

\* ContactPointDataModule.__init__ once more: another module instance over the
\* same dataset with the same ratios, any batch size and any worker count. What
\* the instance before it held is remembered in `earlier`.
Reconstruct(b, w) ==
    /\ hparams' = HParams(hparams.train_val_test_split_ratio, b, w)
    /\ data_train' = None
    /\ data_val' = None
    /\ data_test' = None
    /\ batch_size_per_device' = b
    /\ trainer' = None
    /\ lengths' = None
    /\ split_count' = 0
    /\ earlier' = IF data_train # None THEN Some(<< data_train, data_val, data_test >>)
                  ELSE earlier
    /\ err' = NoError
    /\ UNCHANGED << dsVars, item, default_rng, loader, batches >>

Next ==
    \/ \E stage \in Stages : Setup(stage)
    \/ \E w \in 1..MaxWorld : AttachTrainer(w)
    \/ TrainDataloader
    \/ ValDataloader
    \/ TestDataloader
    \/ Iterate
    \/ PrepareData
    \/ \E stage \in Stages : Teardown(stage)
    \/ StateDict
    \/ LoadStateDict

Spec == Init /\ [][Next]_vars

\* The same, with a second module instance constructed at any time.
NextRerun ==
    \/ \E stage \in Stages : Setup(stage)
    \/ \E w \in 1..MaxWorld : AttachTrainer(w)
    \/ TrainDataloader
    \/ Iterate
    \/ \E b \in 1..MaxBatch, w \in WorkerCounts : Reconstruct(b, w)

SpecRerun == Init /\ [][NextRerun]_vars

\* The dataset alone: arrays of 1 .. MaxRows rows and OutDim+1 .. MaxCols columns.
InitDataset ==
    /\ \E n \in 1..MaxRows, d \in MinCols..MaxCols, base \in Bases : file = MkFile(n, d, base)
    /\ hparams = HParams(<< Ratio(1, 2), Ratio(1, 5) >>, 1, 4)
    /\ default_rng = 0
    /\ DatasetConstructed
    /\ ModuleConstructed

NextDataset ==
    \/ \E idx \in (-(MaxRows + 2))..(MaxRows + 1) : GetItem(idx)
    \/ LenCall

SpecDataset == InitDataset /\ [][NextDataset]_vars

-----------------------------------------------------------------------------
(* The properties. Arithmetic on this side is stated on its own terms. *)

N == Len(file)
Cols == Len(file[1])
ratio_train == hparams.train_val_test_split_ratio[1]
ratio_val == hparams.train_val_test_split_ratio[2]

\* floor(r * n) for a fraction r >= 0: the k with k <= r * n < k + 1.
FloorMul(r, n) ==
    CHOOSE k \in 0..(r.num * n) : k * r.den <= r.num * n /\ r.num * n < (k + 1) * r.den

RatioSum(op(_, _)) ==
    op(ratio_train.num * ratio_val.den + ratio_val.num * ratio_train.den,
       ratio_train.den * ratio_val.den)
AtMost(a, b) == a <= b
MoreThan(a, b) == a > b
RatiosSumAtMostOne == RatioSum(AtMost)
RatiosSumOverOne == RatioSum(MoreThan)

SplitDone == data_train # None /\ data_val # None /\ data_test # None
Elems(s) == {s[k] : k \in 1..Len(s)}
NoRepeat(s) == Cardinality(Elems(s)) = Len(s)
Perm42 == RandPerm(N, ManualSeed(Seed))

\* x is exactly the entries a+1 .. b of sequence p.
IsSlice(x, p, a, b) ==
    /\ Len(x) = b - a
    /\ b <= Len(p)
    /\ \A k \in 1..Len(x) : x[k] = p[a + k]

SetupStep == \E stage \in Stages : Setup(stage)
RuntimeErr == "RuntimeError: batch size not divisible by the number of devices"
FractionErr == "ValueError: fraction not between 0 and 1"
SumErr == "ValueError: sum of lengths"

\* C1: with both ratios >= 0 and summing to at most 1, the split a setup call
\* produces has train = floor(ratio_train * N), val = floor(ratio_val * N) and
\* test = N - train - val entries; the three add up to N and none is negative.
C1_SplitLengths ==
    (SplitDone /\ RatiosSumAtMostOne) =>
        LET t == FloorMul(ratio_train, N)
            v == FloorMul(ratio_val, N)
        IN  /\ Len(data_train[1]) = t
            /\ Len(data_val[1]) = v
            /\ Len(data_test[1]) = N - t - v
            /\ N - t - v >= 0
            /\ Len(data_train[1]) + Len(data_val[1]) + Len(data_test[1]) = N
            /\ lengths = Some(<< t, v, N - t - v >>)

C1_Witness ==
    /\ SplitDone /\ RatiosSumAtMostOne
    /\ N = 3
    /\ Len(data_train[1]) = 1 /\ Len(data_val[1]) = 1 /\ Len(data_test[1]) = 1

C3_SplitOnce == split_count <= 1

\* C4: two module instances over a dataset of the same length with the same
\* ratios hold the same indices at the same positions of the same subsets,
\* whatever their batch sizes, trainers, stages and the calls made before.
C4_Deterministic ==
    (earlier # None /\ SplitDone) => earlier[1] = << data_train, data_val, data_test >>

C4_Witness ==
    /\ earlier # None /\ SplitDone
    /\ N = 3
    /\ Len(data_train[1]) >= 2
    /\ trainer # None
    /\ batch_size_per_device # hparams.batch_size
    /\ hparams.num_workers = 0

\* C5: a setup call made with a trainer whose world size does not divide the
\* batch size raises the configuration error, splits nothing, leaves the
\* per-device batch size alone and produces no loader.
C5_Indivisible ==
    [][(/\ trainer # None
        /\ hparams.batch_size % trainer[1].world_size # 0
        /\ SetupStep)
       => (/\ err' = RuntimeErr
           /\ UNCHANGED << data_train, data_val, data_test, lengths, split_count,
                           batch_size_per_device, loader, batches >>)]_vars

C5_Witness ==
    /\ err = RuntimeErr
    /\ trainer # None
    /\ hparams.batch_size % trainer[1].world_size # 0
    /\ ~SplitDone

\* C6: a full iteration of a loader over a subset of L samples with batch size b
\* yields floor(L / b) batches of exactly b samples each, drops the last L mod b
\* samples, and yields no sample twice.
C6_Batches ==
    batches # None =>
        LET l == loader[1]
            L == Len(l.dataset[1])
            b == l.batch_size
            all == [k \in 1..Len(batches[1]) |-> Elems(batches[1][k])]
            yielded == UNION {all[k] : k \in 1..Len(batches[1])}
        IN  /\ Len(batches[1]) * b <= L /\ L < (Len(batches[1]) + 1) * b
            /\ \A k \in 1..Len(batches[1]) :
                  Len(batches[1][k]) = b /\ NoRepeat(batches[1][k])
            /\ \A j, k \in 1..Len(batches[1]) : j # k => all[j] \cap all[k] = {}
            /\ yielded \subseteq Elems(l.dataset[1])
            /\ L - Cardinality(yielded) = L % b

C6_Witness ==
    /\ batches # None
    /\ loader[1].kind = "train"
    /\ Len(loader[1].dataset[1]) = 3
    /\ loader[1].batch_size = 2
    /\ Len(batches[1]) = 1

\* C7 as claimed: for an array of N >= 1 rows and D >= 4 columns the dataset has
\* length N, and row i is the pair (first D-3 columns, last 3 columns) of row i
\* of the array, the output being 3 wide.
C7_Shape ==
    LET data == LoadData(file)
    IN  /\ DatasetLen = N
        /\ \A r \in 1..N :
              /\ Len(input[r]) = Cols - 3
              /\ Len(output[r]) = 3
              /\ \A c \in 1..Len(input[r]) : input[r][c] = data[r][c]
              /\ \A c \in 1..Len(output[r]) : output[r][c] = data[r][Cols - 3 + c]
        /\ (item.op = "getitem" /\ item.idx >= 0 /\ item.idx < N) =>
              /\ item.err = NoError
              /\ Len(item.value[2]) = 3
        /\ item.op = "len" => item.value = << N >>

\* C8 as claimed: dataset[i] returns a sample exactly when 0 <= i < N and fails
\* with an out-of-range error for every other integer i.
C8_Original ==
    item.op = "getitem" =>
        IF item.idx >= 0 /\ item.idx < N THEN item.err = NoError
        ELSE item.err = "IndexError"

\* C8 amended: dataset[i] fails with an out-of-range error for every i >= N and
\* every i < -N; for -N <= i < 0 it returns the sample of row N + i, and for
\* 0 <= i < N the sample of row i.
C8_Wraps ==
    item.op = "getitem" =>
        IF item.idx >= -N /\ item.idx < N
        THEN LET row == IF item.idx >= 0 THEN item.idx ELSE N + item.idx
             IN  /\ item.err = NoError
                 /\ item.value = << input[row + 1], output[row + 1] >>
        ELSE item.err = "IndexError"

C8_Witness ==
    /\ item.op = "getitem"
    /\ item.idx = -1
    /\ N = 3
    /\ item.err = NoError
    /\ item.value[1] = input[3]

C10_Original ==
    [][batch_size_per_device' # batch_size_per_device
       => (/\ trainer # None
           /\ err' = NoError
           /\ batch_size_per_device' * trainer[1].world_size = hparams.batch_size)]_vars

\* C10 amended: the per-device batch size stays the configured batch size until
\* a setup call with a trainer attached passes the divisibility check; every
\* such call, whether it splits, skips the split or fails in the split, sets it
\* to batch_size / world_size exactly; every loader is built with the value
\* current at its construction.
C10_PerDevice ==
    [][/\ batch_size_per_device' # batch_size_per_device
          => (/\ SetupStep
              /\ trainer # None
              /\ err' # RuntimeErr
              /\ hparams.batch_size % trainer[1].world_size = 0)
       /\ (trainer # None /\ err' # RuntimeErr /\ SetupStep)
          => batch_size_per_device' * trainer[1].world_size = hparams.batch_size
       /\ loader' # loader
          => loader'[1].batch_size = batch_size_per_device]_vars

C10_Witness ==
    /\ trainer # None
    /\ trainer[1].world_size = 2
    /\ batch_size_per_device = 1
    /\ hparams.batch_size = 2
    /\ split_count = 1
    /\ loader # None
    /\ loader[1].batch_size = 1

====
